---- MODULE Spec2Model ----
(***************************************************************************)
(* Model of putput/generator.py: the expansion engine that rewrites range  *)
(* tokens and group tokens of utterance patterns, computes the combo of    *)
(* every expanded pattern and materializes utterances with handled tokens. *)
(*                                                                         *)
(* Python sequences are TLA+ sequences; indices passed between operators   *)
(* keep Python's 0-based values (element i of a list l is l[i + 1]).       *)
(* Every recursive call of the source is one step of the state machine;    *)
(* a recursion deeper than RecursionLimit ends in the interpreter's        *)
(* RecursionError.                                                         *)
(***************************************************************************)
EXTENDS Integers, Sequences, FiniteSets, TLC

VARIABLES entry, pc, depth, pattern_def, dynamic_token_patterns_map,
          utterance_patterns, utterance_patterns_groups, expanded_group_map,
          group_index_calls, yielded,
          utterance_combo, tokens, token_handler_map, handled_token_combo,
          emitted

vars == <<entry, pc, depth, pattern_def, dynamic_token_patterns_map,
          utterance_patterns, utterance_patterns_groups, expanded_group_map,
          group_index_calls, yielded,
          utterance_combo, tokens, token_handler_map, handled_token_combo,
          emitted>>

(***************************************************************************)
(* Bounds of the explored inputs.                                          *)
(***************************************************************************)
MaxLen == 4
MaxShortLen == 1
MaxGroupUtteranceLen == 3
MaxGroupLen == 2
MaxPipelinePatterns == 3
MaxComboLen == 2
MaxPhrases == 2
RecursionLimit == 12

(***************************************************************************)
(* Python helpers.                                                         *)
(***************************************************************************)
None == -1
IndexError == -2

SeqsUpTo(S, n) == UNION {[1..k -> S] : k \in 0..n}

Min(a, b) == IF a < b THEN a ELSE b
Max(a, b) == IF a < b THEN b ELSE a

\* [x] * n
Repeat(x, n) == IF n <= 0 THEN <<>> ELSE [k \in 1..n |-> x]

\* list(range(lo, hi + 1)): the upper bound taken as inclusive.
RangeInclusive(lo, hi) == IF hi < lo THEN <<>> ELSE [k \in 1..(hi - lo + 1) |-> lo + k - 1]

\* list(range(lo, hi))
Range(lo, hi) == IF hi <= lo THEN <<>> ELSE [k \in 1..(hi - lo) |-> lo + k - 1]

\* l[lo:hi] = repl   (0 <= lo <= hi)
SliceAssign(l, lo, hi, repl) ==
    LET a == Min(lo, Len(l))
        b == Max(Min(hi, Len(l)), a)
    IN  SubSeq(l, 1, a) \o repl \o SubSeq(l, b + 1, Len(l))

\* A dict built from <<key, value>> items: the last item of a key wins.
DictOf(items) ==
    [key \in {items[n][1] : n \in 1..Len(items)} |->
        items[CHOOSE n \in 1..Len(items) :
                 /\ items[n][1] = key
                 /\ \A m \in (n + 1)..Len(items) : items[m][1] # key][2]]

\* itertools.chain.from_iterable / repeated list.append in a loop
RECURSIVE Chain(_)
Chain(ls) == IF ls = <<>> THEN <<>> ELSE Head(ls) \o Chain(Tail(ls))

(***************************************************************************)
(* putput.validator: the range syntax and its bounds parser.  A range      *)
(* token is written RANGE(max) or RANGE(min,max).                          *)
(***************************************************************************)
RangeBounds ==
    [t \in {"RANGE(0)", "RANGE(3)", "RANGE(0,2)", "RANGE(2,4)"} |->
        CASE t = "RANGE(0)"   -> <<None, 0>>
          [] t = "RANGE(3)"   -> <<None, 3>>
          [] t = "RANGE(0,2)" -> <<0, 2>>
          [] t = "RANGE(2,4)" -> <<2, 4>>]

RangeTokens == DOMAIN RangeBounds

RANGE_REGEX(token) == token \in RangeTokens

parse_range_token(token) == RangeBounds[token]

(***************************************************************************)
(* Range Expander.                                                         *)
(***************************************************************************)
_get_regex_match_index(utterance_pattern) ==
    IF \E i \in 1..Len(utterance_pattern) : RANGE_REGEX(utterance_pattern[i])
    THEN (CHOOSE i \in 1..Len(utterance_pattern) :
             /\ RANGE_REGEX(utterance_pattern[i])
             /\ \A j \in 1..(i - 1) : ~RANGE_REGEX(utterance_pattern[j])) - 1
    ELSE None

_any_patterns_match_regex(patterns) ==
    \E n \in 1..Len(patterns) : _get_regex_match_index(patterns[n]) # None

\* The patterns one iteration of the loop of _handle_ranges appends.
HandleRangesPattern(utterance_pattern) ==
    LET match_index == _get_regex_match_index(utterance_pattern)
    IN  IF match_index # None /\ match_index # 0 /\ match_index > 0
        THEN LET token == utterance_pattern[match_index + 1]
                 previous_token == utterance_pattern[match_index]
                 min_range == parse_range_token(token)[1]
                 max_range == parse_range_token(token)[2]
                 values == Range(min_range, max_range)
             IN  IF min_range # None
                 THEN [k \in 1..Len(values) |->
                          SliceAssign(utterance_pattern, match_index - 1, match_index + 1,
                                      Repeat(previous_token, values[k]))]
                 ELSE <<SliceAssign(utterance_pattern, match_index - 1, match_index + 1,
                                    Repeat(previous_token, max_range))>>
        ELSE <<utterance_pattern>>

\* handled_utterance_patterns after the loop of _handle_ranges.
HandleRangesLoop(patterns) ==
    Chain([n \in 1..Len(patterns) |-> HandleRangesPattern(patterns[n])])

\* _handle_ranges as a function: the result, or raised when the recursion
\* exceeds the interpreter's limit.
RECURSIVE _handle_ranges(_, _)
_handle_ranges(patterns, d) ==
    IF ~_any_patterns_match_regex(patterns)
    THEN [raised |-> FALSE, value |-> patterns]
    ELSE IF d >= RecursionLimit
         THEN [raised |-> TRUE, value |-> <<>>]
         ELSE _handle_ranges(HandleRangesLoop(patterns), d + 1)

(***************************************************************************)
(* Group Expander.                                                         *)
(***************************************************************************)
\* The loop of _get_current_group_index.
RECURSIVE GroupIndexLoop(_, _, _, _)
GroupIndexLoop(token_index, groups, cur_index, cur_sum) ==
    IF cur_sum < token_index
    THEN IF cur_index >= Len(groups)
         THEN IndexError
         ELSE GroupIndexLoop(token_index, groups, cur_index + 1,
                             cur_sum + groups[cur_index + 1][2])
    ELSE cur_index

_get_current_group_index(token_index, groups) ==
    GroupIndexLoop(token_index, groups, 0, 0)

_get_map_match_index(utterance_pattern, group_map) ==
    IF \E i \in 1..Len(utterance_pattern) : utterance_pattern[i] \in DOMAIN group_map
    THEN (CHOOSE i \in 1..Len(utterance_pattern) :
             /\ utterance_pattern[i] \in DOMAIN group_map
             /\ \A j \in 1..(i - 1) : utterance_pattern[j] \notin DOMAIN group_map) - 1
    ELSE None

_any_pattern_token_in_group_map(patterns, group_map) ==
    \E n \in 1..Len(patterns) : _get_map_match_index(patterns[n], group_map) # None

\* pattern_def[base_key] is a list of single-entry mappings <<name, pattern>>;
\* a later entry of the same name replaces an earlier one.
_get_base_item_map(items) == DictOf(items)

\* One iteration of the loop of _expand_groups_recursive: the
\* (pattern, groups) pairs appended for one pattern, and the call made to
\* _get_current_group_index.
ExpandGroupsPattern(utterance_pattern, groups, group_map) ==
    LET index == _get_map_match_index(utterance_pattern, group_map)
    IN  IF index # None
        THEN LET token == utterance_pattern[index + 1]
                 group_index == _get_current_group_index(index, groups)
                 group_patterns == group_map[token]
             IN  [raised |-> group_index = IndexError,
                  calls |-> <<[token_index |-> index, groups |-> groups,
                               result |-> group_index]>>,
                  pairs |-> IF group_index = IndexError THEN <<>>
                            ELSE [k \in 1..Len(group_patterns) |->
                                     <<SliceAssign(utterance_pattern, index, index + 1,
                                                   group_patterns[k]),
                                       SliceAssign(groups, group_index, group_index + 1,
                                                   <<<<token, Len(group_patterns[k])>>>>)>>]]
        ELSE [raised |-> FALSE, calls |-> <<>>,
              pairs |-> <<<<utterance_pattern, groups>>>>]

ExpandGroupsLoop(patterns, patterns_groups, group_map) ==
    LET each == [n \in 1..Min(Len(patterns), Len(patterns_groups)) |->
                    ExpandGroupsPattern(patterns[n], patterns_groups[n], group_map)]
        pairs == Chain([n \in 1..Len(each) |-> each[n].pairs])
    IN  [raised |-> \E n \in 1..Len(each) : each[n].raised,
         calls |-> Chain([n \in 1..Len(each) |-> each[n].calls]),
         patterns |-> [k \in 1..Len(pairs) |-> pairs[k][1]],
         groups |-> [k \in 1..Len(pairs) |-> pairs[k][2]]]

DefaultGroups(patterns) ==
    [n \in 1..Len(patterns) |-> [i \in 1..Len(patterns[n]) |-> <<"None", 1>>]]

(***************************************************************************)
(* putput.joiner: join_combo without combo options is the cross product of *)
(* the components, the last position varying fastest.                      *)
(***************************************************************************)
RECURSIVE join_combo(_)
join_combo(combo) ==
    IF combo = <<>> THEN << <<>> >>
    ELSE LET rest == join_combo(Tail(combo))
         IN  Chain([i \in 1..Len(Head(combo)) |->
                       [j \in 1..Len(rest) |-> <<Head(combo)[i]>> \o rest[j]]])

\* ''.join(strings): the separator left out.
RECURSIVE JoinNoSpace(_)
JoinNoSpace(strings) ==
    IF strings = <<>> THEN "" ELSE strings[1] \o JoinNoSpace(Tail(strings))

\* ' '.join(strings)
RECURSIVE JoinSpace(_)
JoinSpace(strings) ==
    IF strings = <<>> THEN ""
    ELSE IF Len(strings) = 1 THEN strings[1]
    ELSE strings[1] \o " " \o JoinSpace(Tail(strings))

(***************************************************************************)
(* Token Pattern Resolver and Combo Computer.                              *)
(***************************************************************************)
\* Lists and tuples are both sequences here: the conversion keeps every
\* phrase of every token pattern in place.
_convert_token_patterns_to_tuples(token_patterns) ==
    [k \in 1..Len(token_patterns) |->
        [c \in 1..Len(token_patterns[k]) |->
            [w \in 1..Len(token_patterns[k][c]) |-> token_patterns[k][c][w]]]]

\* The pattern definitions explored declare no base_tokens, so the branch
\* that expands them is not taken.
_process_static_token_patterns(pdef, token_patterns) ==
    _convert_token_patterns_to_tuples(token_patterns)

_get_static_token_patterns_map(pdef) ==
    LET items == Chain([n \in 1..Len(pdef.token_patterns) |->
                    IF "static" \in DOMAIN pdef.token_patterns[n]
                    THEN pdef.token_patterns[n]["static"]
                    ELSE <<>>])
        dict == DictOf(items)
    IN  [token \in DOMAIN dict |-> _process_static_token_patterns(pdef, dict[token])]

\* dict.update: entries of the dynamic map replace static ones.
_get_token_patterns_map(pdef, dynamic) ==
    LET static == _get_static_token_patterns_map(pdef)
    IN  [token \in DOMAIN static \cup DOMAIN dynamic |->
            IF token \in DOMAIN dynamic THEN dynamic[token] ELSE static[token]]

_expand_token_pattern(token_pattern) ==
    LET phrases == join_combo(token_pattern)
    IN  [k \in 1..Len(phrases) |-> JoinSpace(phrases[k])]

_compute_utterance_combo(expanded_utterance_pattern) ==
    [p \in 1..Len(expanded_utterance_pattern) |->
        Chain([k \in 1..Len(expanded_utterance_pattern[p]) |->
                  _expand_token_pattern(expanded_utterance_pattern[p][k])])]

(***************************************************************************)
(* Utterance Materializer and token handlers.  A handler map holds handler *)
(* names; None and the empty map are both the empty function.              *)
(***************************************************************************)
NoHandler == "None"

\* handler(token, phrase)
Call(handler, token, phrase) ==
    IF handler = "default_token_handler"
    THEN "[" \o token \o "(" \o phrase \o ")]"
    ELSE handler \o "<" \o token \o ":" \o phrase \o ">"

\* dict.get(key)
Get(map, key) == IF key \in DOMAIN map THEN map[key] ELSE NoHandler

\* a or b
Or(a, b) == IF a # NoHandler THEN a ELSE b

\* The map-wide default looked up before the token's own entry.
DefaultFirstTokenHandler(token, handler_map) ==
    IF DOMAIN handler_map # {}
    THEN Or(Or(Get(handler_map, "DEFAULT"), Get(handler_map, token)),
            "default_token_handler")
    ELSE "default_token_handler"

_get_token_handler(token, handler_map) ==
    IF DOMAIN handler_map # {}
    THEN Or(Or(Get(handler_map, token), Get(handler_map, "DEFAULT")),
            "default_token_handler")
    ELSE "default_token_handler"

\* The handler applied once per position instead of once per phrase.
HandledTokenPerPosition(combo, token_names, handler_map) ==
    [p \in 1..Min(Len(combo), Len(token_names)) |->
        [j \in 1..Min(1, Len(combo[p])) |->
            Call(_get_token_handler(token_names[p], handler_map),
                 token_names[p], combo[p][j])]]

_compute_handled_token_combo(combo, token_names, handler_map) ==
    [p \in 1..Min(Len(combo), Len(token_names)) |->
        [j \in 1..Len(combo[p]) |->
            Call(_get_token_handler(token_names[p], handler_map),
                 token_names[p], combo[p][j])]]

ComboIndices(combo) == [p \in 1..Len(combo) |-> Range(0, Len(combo[p]))]

\* The pair one iteration of the loop of generate_utterances_and_handled_tokens
\* yields for one index tuple.
MaterializePair(combo, handled_combo, indices) ==
    LET n == Min(Min(Len(combo), Len(handled_combo)), Len(indices))
    IN  <<JoinSpace([p \in 1..n |-> combo[p][indices[p] + 1]]),
          [p \in 1..n |-> handled_combo[p][indices[p] + 1]]>>

(***************************************************************************)
(* Inputs.                                                                 *)
(***************************************************************************)
RangeAlphabet == {"X", "Y"} \cup RangeTokens

RangeInputs ==
    {<<p>> : p \in SeqsUpTo(RangeAlphabet, MaxLen)}
    \cup {<<p, q>> : p \in SeqsUpTo(RangeAlphabet, MaxLen - 2),
                     q \in SeqsUpTo(RangeAlphabet, MaxShortLen)}

GroupInputs ==
    {<<p>> : p \in SeqsUpTo({"X", "G", "H"}, MaxGroupUtteranceLen)}

\* groups: G may use H, H is flat; one more definition has G use itself.
GroupsInputs ==
    {<< <<"G", g>>, <<"H", h>> >> :
        g \in SeqsUpTo({"P", "Q", "H", "RANGE(0,2)"}, MaxGroupLen),
        h \in SeqsUpTo({"R"}, MaxGroupLen)}
    \cup {<< <<"G", <<"P", "G">> >>, <<"H", <<"R">> >> >>}

PipelinePatterns ==
    {<<t>> : t \in {"A", "Z", "G"}}
    \cup {<<t, "RANGE(0,2)">> : t \in {"A", "Z"}}
    \cup {<<"A", "RANGE(0,2)", "RANGE(3)">>}

\* The last definition has G use itself.
PipelineGroups ==
    {<< <<"G", <<"A", "B">> >> >>,
     << <<"G", <<"A", "Z">> >> >>,
     << <<"G", <<"G">> >> >>}

\* token_patterns of the pattern definition: A, B and C are static tokens,
\* Z is declared dynamic.
TokenPatterns ==
    << [type \in {"static"} |->
           << <<"A", << << <<"hi">> >> >> >>,
              <<"B", << << <<"there">> >>, << <<"world">> >> >> >>,
              <<"C", << << <<"he", "she">>, <<"ran">> >> >> >> >>],
       [type \in {"dynamic"} |-> <<"Z">>] >>

DynamicInputs == {<<>>, [token \in {"Z"} |-> << << <<"zed">> >> >>]}

Phrases == <<"hi", "there", "world">>

\* Phrase sets are the runs of Phrases of at most MaxPhrases phrases.
PhraseSets ==
    {SubSeq(Phrases, a, b) : a \in 1..Len(Phrases),
                             b \in 0..Len(Phrases)} \cap SeqsUpTo({"hi", "there", "world"}, MaxPhrases)

ComboInputs == SeqsUpTo(PhraseSets, MaxComboLen)

TokensInputs == SeqsUpTo({"A", "B"}, MaxComboLen)

TokenHandlerMaps ==
    {[key \in K |-> "handler_" \o key] : K \in SUBSET {"A", "B", "DEFAULT"}}

NoPatternDef == [keys |-> {}, utterance_patterns |-> <<>>, groups |-> <<>>,
                 token_patterns |-> <<>>]

InitCommon ==
    /\ depth = 0
    /\ utterance_patterns_groups = <<>>
    /\ expanded_group_map = <<>>
    /\ group_index_calls = <<>>
    /\ yielded = <<>>
    /\ handled_token_combo = <<>>
    /\ emitted = <<>>

InitNoMaterializer ==
    /\ utterance_combo = <<>>
    /\ tokens = <<>>
    /\ token_handler_map = <<>>

\* A caller invokes _handle_ranges(utterance_patterns).
InitHandleRanges ==
    /\ entry = "_handle_ranges"
    /\ pc = "_handle_ranges"
    /\ \E ups \in RangeInputs :
          /\ pattern_def = [NoPatternDef EXCEPT !.keys = {"utterance_patterns"},
                                                !.utterance_patterns = ups]
          /\ utterance_patterns = ups
    /\ dynamic_token_patterns_map = <<>>
    /\ InitNoMaterializer
    /\ InitCommon

\* A caller invokes _expand_groups(pattern_def, utterance_patterns).
InitExpandGroups ==
    /\ entry = "_expand_groups"
    /\ pc = "_expand_groups"
    /\ \E ups \in GroupInputs :
          /\ \/ pattern_def = [NoPatternDef EXCEPT !.keys = {"utterance_patterns"},
                                                   !.utterance_patterns = ups]
             \/ \E gs \in GroupsInputs :
                   pattern_def = [NoPatternDef EXCEPT
                                     !.keys = {"utterance_patterns", "groups"},
                                     !.utterance_patterns = ups,
                                     !.groups = gs]
          /\ utterance_patterns = ups
    /\ dynamic_token_patterns_map = <<>>
    /\ InitNoMaterializer
    /\ InitCommon

\* A caller consumes generate_utterance_combo_tokens_and_groups(path, ...):
\* pattern_def is the loaded and validated pattern definition.
InitGenerate ==
    /\ entry = "generate_utterance_combo_tokens_and_groups"
    /\ pc = "_handle_ranges"
    /\ \E ups \in SeqsUpTo(PipelinePatterns, MaxPipelinePatterns) :
          /\ \/ pattern_def = [NoPatternDef EXCEPT
                                  !.keys = {"utterance_patterns", "token_patterns"},
                                  !.utterance_patterns = ups,
                                  !.token_patterns = TokenPatterns]
             \/ \E gs \in PipelineGroups :
                   pattern_def = [NoPatternDef EXCEPT
                                     !.keys = {"utterance_patterns", "token_patterns",
                                               "groups"},
                                     !.utterance_patterns = ups,
                                     !.token_patterns = TokenPatterns,
                                     !.groups = gs]
          /\ utterance_patterns = ups
    /\ dynamic_token_patterns_map \in DynamicInputs
    /\ InitNoMaterializer
    /\ InitCommon

\* A caller consumes generate_utterances_and_handled_tokens(utterance_combo,
\* tokens, token_handler_map=...) with the default combo options.
InitMaterialize ==
    /\ entry = "generate_utterances_and_handled_tokens"
    /\ pc = "generate_utterances_and_handled_tokens"
    /\ pattern_def = NoPatternDef
    /\ utterance_patterns = <<>>
    /\ dynamic_token_patterns_map = <<>>
    /\ utterance_combo \in ComboInputs
    /\ tokens \in TokensInputs
    /\ token_handler_map \in TokenHandlerMaps
    /\ InitCommon

Init == InitHandleRanges \/ InitExpandGroups \/ InitGenerate \/ InitMaterialize

(***************************************************************************)
(* _handle_ranges, one step per call.                                      *)
(***************************************************************************)
HandleRangesReturn ==
    /\ pc = "_handle_ranges"
    /\ ~_any_patterns_match_regex(utterance_patterns)
    /\ pc' = IF entry = "_handle_ranges" THEN "returned" ELSE "_expand_groups"
    /\ depth' = 0
    /\ UNCHANGED <<entry, pattern_def, dynamic_token_patterns_map, utterance_patterns,
                   utterance_patterns_groups, expanded_group_map, group_index_calls,
                   yielded, utterance_combo, tokens, token_handler_map,
                   handled_token_combo, emitted>>

HandleRangesRecurse ==
    /\ pc = "_handle_ranges"
    /\ _any_patterns_match_regex(utterance_patterns)
    /\ depth < RecursionLimit
    /\ utterance_patterns' = HandleRangesLoop(utterance_patterns)
    /\ depth' = depth + 1
    /\ UNCHANGED <<entry, pc, pattern_def, dynamic_token_patterns_map,
                   utterance_patterns_groups, expanded_group_map, group_index_calls,
                   yielded, utterance_combo, tokens, token_handler_map,
                   handled_token_combo, emitted>>

HandleRangesOverflow ==
    /\ pc = "_handle_ranges"
    /\ _any_patterns_match_regex(utterance_patterns)
    /\ depth >= RecursionLimit
    /\ pc' = "RecursionError"
    /\ UNCHANGED <<entry, depth, pattern_def, dynamic_token_patterns_map,
                   utterance_patterns, utterance_patterns_groups, expanded_group_map,
                   group_index_calls, yielded, utterance_combo, tokens,
                   token_handler_map, handled_token_combo, emitted>>

(***************************************************************************)
(* _expand_groups and _expand_groups_recursive, one step per call.         *)
(***************************************************************************)
ExpandGroups ==
    /\ pc = "_expand_groups"
    /\ utterance_patterns_groups' = DefaultGroups(utterance_patterns)
    /\ IF "groups" \in pattern_def.keys
       THEN LET group_map == _get_base_item_map(pattern_def.groups)
                expanded == [name \in DOMAIN group_map |->
                                _handle_ranges(<<group_map[name]>>, 0)]
            IN  IF \E name \in DOMAIN expanded : expanded[name].raised
                THEN /\ pc' = "RecursionError"
                     /\ UNCHANGED expanded_group_map
                ELSE /\ pc' = "_expand_groups_recursive"
                     /\ expanded_group_map' =
                           [name \in DOMAIN expanded |-> expanded[name].value]
       ELSE /\ pc' = IF entry = "_expand_groups" THEN "returned" ELSE "generate"
            /\ UNCHANGED expanded_group_map
    /\ depth' = 0
    /\ UNCHANGED <<entry, pattern_def, dynamic_token_patterns_map, utterance_patterns,
                   group_index_calls, yielded, utterance_combo, tokens,
                   token_handler_map, handled_token_combo, emitted>>

ExpandGroupsReturn ==
    /\ pc = "_expand_groups_recursive"
    /\ ~_any_pattern_token_in_group_map(utterance_patterns, expanded_group_map)
    /\ pc' = IF entry = "_expand_groups" THEN "returned" ELSE "generate"
    /\ depth' = 0
    /\ UNCHANGED <<entry, pattern_def, dynamic_token_patterns_map, utterance_patterns,
                   utterance_patterns_groups, expanded_group_map, group_index_calls,
                   yielded, utterance_combo, tokens, token_handler_map,
                   handled_token_combo, emitted>>

ExpandGroupsRecurse ==
    /\ pc = "_expand_groups_recursive"
    /\ _any_pattern_token_in_group_map(utterance_patterns, expanded_group_map)
    /\ depth < RecursionLimit
    /\ LET loop == ExpandGroupsLoop(utterance_patterns, utterance_patterns_groups,
                                    expanded_group_map)
       IN  /\ group_index_calls' = loop.calls
           /\ IF loop.raised
              THEN /\ pc' = "IndexError"
                   /\ UNCHANGED <<utterance_patterns, utterance_patterns_groups, depth>>
              ELSE /\ utterance_patterns' = loop.patterns
                   /\ utterance_patterns_groups' = loop.groups
                   /\ depth' = depth + 1
                   /\ UNCHANGED pc
    /\ UNCHANGED <<entry, pattern_def, dynamic_token_patterns_map, expanded_group_map,
                   yielded, utterance_combo, tokens, token_handler_map,
                   handled_token_combo, emitted>>

ExpandGroupsOverflow ==
    /\ pc = "_expand_groups_recursive"
    /\ _any_pattern_token_in_group_map(utterance_patterns, expanded_group_map)
    /\ depth >= RecursionLimit
    /\ pc' = "RecursionError"
    /\ UNCHANGED <<entry, depth, pattern_def, dynamic_token_patterns_map,
                   utterance_patterns, utterance_patterns_groups, expanded_group_map,
                   group_index_calls, yielded, utterance_combo, tokens,
                   token_handler_map, handled_token_combo, emitted>>

(***************************************************************************)
(* The loop of generate_utterance_combo_tokens_and_groups, one step per    *)
(* element the consumer asks for.                                          *)
(***************************************************************************)
TokenPatternsMap == _get_token_patterns_map(pattern_def, dynamic_token_patterns_map)

\* zip(expanded_utterance_patterns, utterance_patterns_groups)
ZipLen == Min(Len(utterance_patterns), Len(utterance_patterns_groups))

GenerateYield ==
    /\ pc = "generate"
    /\ Len(yielded) < ZipLen
    /\ LET utterance_pattern == utterance_patterns[Len(yielded) + 1]
           utterance_pattern_group == utterance_patterns_groups[Len(yielded) + 1]
       IN  /\ \A i \in 1..Len(utterance_pattern) :
                 utterance_pattern[i] \in DOMAIN TokenPatternsMap
           /\ yielded' = Append(yielded,
                 <<_compute_utterance_combo(
                       [i \in 1..Len(utterance_pattern) |->
                           TokenPatternsMap[utterance_pattern[i]]]),
                   utterance_pattern, utterance_pattern_group>>)
    /\ UNCHANGED <<entry, pc, depth, pattern_def, dynamic_token_patterns_map,
                   utterance_patterns, utterance_patterns_groups, expanded_group_map,
                   group_index_calls, utterance_combo, tokens, token_handler_map,
                   handled_token_combo, emitted>>

\* The lookup error swallowed: the sequence ends as if it were exhausted.
GenerateSwallowKeyError ==
    /\ pc = "generate"
    /\ Len(yielded) < ZipLen
    /\ LET utterance_pattern == utterance_patterns[Len(yielded) + 1]
       IN  \E i \in 1..Len(utterance_pattern) :
              utterance_pattern[i] \notin DOMAIN TokenPatternsMap
    /\ pc' = "returned"
    /\ UNCHANGED <<entry, depth, pattern_def, dynamic_token_patterns_map,
                   utterance_patterns, utterance_patterns_groups, expanded_group_map,
                   group_index_calls, yielded, utterance_combo, tokens,
                   token_handler_map, handled_token_combo, emitted>>

GenerateKeyError ==
    /\ pc = "generate"
    /\ Len(yielded) < ZipLen
    /\ LET utterance_pattern == utterance_patterns[Len(yielded) + 1]
       IN  \E i \in 1..Len(utterance_pattern) :
              utterance_pattern[i] \notin DOMAIN TokenPatternsMap
    /\ pc' = "KeyError"
    /\ UNCHANGED <<entry, depth, pattern_def, dynamic_token_patterns_map,
                   utterance_patterns, utterance_patterns_groups, expanded_group_map,
                   group_index_calls, yielded, utterance_combo, tokens,
                   token_handler_map, handled_token_combo, emitted>>

GenerateStop ==
    /\ pc = "generate"
    /\ Len(yielded) >= ZipLen
    /\ pc' = "returned"
    /\ UNCHANGED <<entry, depth, pattern_def, dynamic_token_patterns_map,
                   utterance_patterns, utterance_patterns_groups, expanded_group_map,
                   group_index_calls, yielded, utterance_combo, tokens,
                   token_handler_map, handled_token_combo, emitted>>

(***************************************************************************)
(* generate_utterances_and_handled_tokens, one step per element.           *)
(***************************************************************************)
ComputeHandledTokenCombo ==
    /\ pc = "generate_utterances_and_handled_tokens"
    /\ handled_token_combo' =
          _compute_handled_token_combo(utterance_combo, tokens, token_handler_map)
    /\ pc' = "join_combo"
    /\ UNCHANGED <<entry, depth, pattern_def, dynamic_token_patterns_map,
                   utterance_patterns, utterance_patterns_groups, expanded_group_map,
                   group_index_calls, yielded, utterance_combo, tokens,
                   token_handler_map, emitted>>

MaterializeYield ==
    /\ pc = "join_combo"
    /\ LET all_indices == join_combo(ComboIndices(utterance_combo))
       IN  /\ Len(emitted) < Len(all_indices)
           /\ emitted' = Append(emitted,
                 MaterializePair(utterance_combo, handled_token_combo,
                                 all_indices[Len(emitted) + 1]))
    /\ UNCHANGED <<entry, pc, depth, pattern_def, dynamic_token_patterns_map,
                   utterance_patterns, utterance_patterns_groups, expanded_group_map,
                   group_index_calls, yielded, utterance_combo, tokens,
                   token_handler_map, handled_token_combo>>

MaterializeStop ==
    /\ pc = "join_combo"
    /\ Len(emitted) >= Len(join_combo(ComboIndices(utterance_combo)))
    /\ pc' = "returned"
    /\ UNCHANGED <<entry, depth, pattern_def, dynamic_token_patterns_map,
                   utterance_patterns, utterance_patterns_groups, expanded_group_map,
                   group_index_calls, yielded, utterance_combo, tokens,
                   token_handler_map, handled_token_combo, emitted>>

NextHandleRanges ==
    \/ HandleRangesReturn
    \/ HandleRangesRecurse
    \/ HandleRangesOverflow

NextExpandGroups ==
    \/ ExpandGroups
    \/ ExpandGroupsReturn
    \/ ExpandGroupsRecurse
    \/ ExpandGroupsOverflow

NextGenerate ==
    \/ NextHandleRanges
    \/ NextExpandGroups
    \/ GenerateYield
    \/ GenerateKeyError
    \/ GenerateStop

NextMaterialize ==
    \/ ComputeHandledTokenCombo
    \/ MaterializeYield
    \/ MaterializeStop

Next == NextGenerate \/ NextMaterialize

Spec == Init /\ [][Next]_vars

\* One specification per function a caller can invoke.
SpecHandleRanges == InitHandleRanges /\ [][NextHandleRanges]_vars

SpecExpandGroups == InitExpandGroups /\ [][NextExpandGroups]_vars

SpecGenerate == InitGenerate /\ [][NextGenerate]_vars

SpecMaterialize == InitMaterialize /\ [][NextMaterialize]_vars

(***************************************************************************)
(* Properties.                                                             *)
(***************************************************************************)
RECURSIVE SumSpans(_)
SumSpans(groups) ==
    IF groups = <<>> THEN 0 ELSE Head(groups)[2] + SumSpans(Tail(groups))

\* The sum of the first k spans.
CumSpans(groups, k) == SumSpans(SubSeq(groups, 1, k))

InputPatterns == pattern_def.utterance_patterns

HasNoRangeToken(pattern) == \A i \in 1..Len(pattern) : ~RANGE_REGEX(pattern[i])

\* 1-based position of the first range token of a pattern, 0 when it has none.
FirstRangePosition(pattern) ==
    IF HasNoRangeToken(pattern) THEN 0
    ELSE CHOOSE i \in 1..Len(pattern) :
            /\ RANGE_REGEX(pattern[i])
            /\ HasNoRangeToken(SubSeq(pattern, 1, i - 1))

GroupDefs == DictOf(pattern_def.groups)

Uses(a, b) == \E i \in 1..Len(GroupDefs[a]) : GroupDefs[a][i] = b

\* No group is defined by itself, directly or through another group.
AcyclicGroupDefs ==
    \A a \in DOMAIN GroupDefs : \A b \in DOMAIN GroupDefs :
        ~Uses(a, a) /\ ~(Uses(a, b) /\ Uses(b, a))

\* C1: every (utterance pattern, Groups) pair held at the start of
\* _expand_groups_recursive, after every rewrite step and in the final result
\* has its span lengths summing to the number of tokens of the pattern; the
\* groups may use other groups (stated for acyclic definitions).
C1_SpanInvariant ==
    (entry = "_expand_groups" /\ pc \in {"_expand_groups_recursive", "returned"}
     /\ AcyclicGroupDefs)
    => \A n \in 1..Len(utterance_patterns) :
          SumSpans(utterance_patterns_groups[n]) = Len(utterance_patterns[n])

\* C2: when no input pattern starts with a range token, _handle_ranges
\* terminates (it does not recurse until the RecursionError) and returns
\* patterns without any range token.
C2_RangeFixedPoint ==
    (entry = "_handle_ranges"
     /\ \A n \in 1..Len(InputPatterns) : FirstRangePosition(InputPatterns[n]) # 1)
    => /\ pc # "RecursionError"
       /\ pc = "returned" =>
             \A n \in 1..Len(utterance_patterns) : HasNoRangeToken(utterance_patterns[n])

\* The pattern that holds v copies of the token before the first range token
\* (at 1-based position r) in place of that token and the range token.
WithCopies(pattern, r, v) ==
    [j \in 1..(Len(pattern) - 2 + v) |->
        IF j < r - 1 THEN pattern[j]
        ELSE IF j < r - 1 + v THEN pattern[r - 1]
        ELSE pattern[j - v + 2]]

\* What one rewrite makes of one pattern.
RewriteOf(pattern) ==
    LET r == FirstRangePosition(pattern)
        min == parse_range_token(pattern[r])[1]
        max == parse_range_token(pattern[r])[2]
    IN  IF r <= 1 THEN <<pattern>>
        ELSE IF min # None
        THEN [k \in 1..(max - min) |-> WithCopies(pattern, r, min + k - 1)]
        ELSE <<WithCopies(pattern, r, max)>>

\* C3: one rewrite replaces the pair (token before the first range token,
\* range token) and leaves the other tokens in place: with a minimum it gives
\* max - min siblings, one per v in min..max-1 in increasing order, holding v
\* copies; without a minimum it gives one pattern holding max copies.
C3_RangeRewrite ==
    (entry = "_handle_ranges" /\ pc = "_handle_ranges" /\ depth = 1)
    => utterance_patterns =
          Chain([n \in 1..Len(InputPatterns) |-> RewriteOf(InputPatterns[n])])

C3_Witness ==
    /\ entry = "_handle_ranges" /\ depth = 1
    /\ InputPatterns = << <<"X", "RANGE(2,4)">> >>
    /\ utterance_patterns = << <<"X", "X">>, <<"X", "X", "X">> >>

\* C4: a pattern whose first range token is at position 0 is treated as no
\* match: _handle_ranges raises no error and returns with the pattern
\* unmodified in its output.
C4_LeadingRangePassesThrough ==
    \A n \in 1..Len(InputPatterns) :
        (entry = "_handle_ranges" /\ FirstRangePosition(InputPatterns[n]) = 1)
        => /\ pc # "RecursionError"
           /\ pc = "returned" =>
                 \E m \in 1..Len(utterance_patterns) :
                    utterance_patterns[m] = InputPatterns[n]

\* The group token sequences hold neither group names nor range tokens.
FlatGroupDefs ==
    /\ "groups" \in pattern_def.keys
    /\ \A name \in DOMAIN GroupDefs :
          \A i \in 1..Len(GroupDefs[name]) :
             /\ GroupDefs[name][i] \notin DOMAIN GroupDefs
             /\ ~RANGE_REGEX(GroupDefs[name][i])

Substituted(pattern) ==
    Chain([i \in 1..Len(pattern) |->
              IF pattern[i] \in DOMAIN GroupDefs THEN GroupDefs[pattern[i]]
              ELSE <<pattern[i]>>])

SubstitutedGroups(pattern) ==
    [i \in 1..Len(pattern) |->
        IF pattern[i] \in DOMAIN GroupDefs
        THEN <<pattern[i], Len(GroupDefs[pattern[i]])>>
        ELSE <<"None", 1>>]

GroupSubstitutionHolds ==
    /\ Len(utterance_patterns) = Len(InputPatterns)
    /\ Len(utterance_patterns_groups) = Len(InputPatterns)
    /\ \A n \in 1..Len(InputPatterns) :
          /\ utterance_patterns[n] = Substituted(InputPatterns[n])
          /\ utterance_patterns_groups[n] = SubstitutedGroups(InputPatterns[n])

\* C5: with group token sequences that contain no group names, the final
\* pattern is the input with every group name replaced in place by the
\* group's token sequence, and the final Groups hold one entry (group name,
\* length of the sequence) per group occurrence and (None, 1) per other token.
C5_GroupSubstitution ==
    (entry = "_expand_groups" /\ pc = "returned" /\ FlatGroupDefs)
    => GroupSubstitutionHolds

\* The same for group token sequences that are not empty.
GroupSubstitutionOfNonEmptyGroups ==
    (entry = "_expand_groups" /\ pc = "returned" /\ FlatGroupDefs
     /\ \A name \in DOMAIN GroupDefs : GroupDefs[name] # <<>>)
    => GroupSubstitutionHolds

RECURSIVE Product(_)
Product(sizes) == IF sizes = <<>> THEN 1 ELSE Head(sizes) * Product(Tail(sizes))

Sizes(combo) == [p \in 1..Len(combo) |-> Len(combo[p])]

\* The k-th (from 0) tuple of 0-based indices of the cross product, the last
\* position varying fastest.
IndexTuple(combo, k) ==
    [p \in 1..Len(combo) |->
        (k \div Product(SubSeq(Sizes(combo), p + 1, Len(combo)))) % Len(combo[p])]

\* The handler the resolution order gives a token.
ResolvedHandler(token) ==
    IF token \in DOMAIN token_handler_map THEN token_handler_map[token]
    ELSE IF "DEFAULT" \in DOMAIN token_handler_map THEN token_handler_map["DEFAULT"]
    ELSE "default_token_handler"

\* The phrases in order with a single space between neighbours.
RECURSIVE SpaceSeparated(_)
SpaceSeparated(phrases) ==
    IF Len(phrases) = 0 THEN ""
    ELSE IF Len(phrases) = 1 THEN phrases[1]
    ELSE SpaceSeparated(SubSeq(phrases, 1, Len(phrases) - 1))
         \o " " \o phrases[Len(phrases)]

ExpectedPair(indices) ==
    <<SpaceSeparated([p \in 1..Len(utterance_combo) |->
                         utterance_combo[p][indices[p] + 1]]),
      [p \in 1..Len(utterance_combo) |->
          Call(ResolvedHandler(tokens[p]), tokens[p],
               utterance_combo[p][indices[p] + 1])]>>

\* C6: for a combo and token names of the same length, one pair is yielded
\* per index tuple of the cross product of the phrase-set sizes; its
\* utterance is the selected phrases joined by single spaces and its handled
\* tokens are the handler results for (token, selected phrase).
C6_Materialization ==
    (entry = "generate_utterances_and_handled_tokens"
     /\ Len(tokens) = Len(utterance_combo))
    => /\ Len(emitted) <= Product(Sizes(utterance_combo))
       /\ pc = "returned" => Len(emitted) = Product(Sizes(utterance_combo))
       /\ \A k \in 1..Len(emitted) :
             emitted[k] = ExpectedPair(IndexTuple(utterance_combo, k - 1))

C6_Witness ==
    /\ pc = "returned"
    /\ utterance_combo = << <<"hi">>, <<"there", "world">> >>
    /\ tokens = <<"A", "B">>
    /\ token_handler_map = <<>>
    /\ emitted = << <<"hi there", <<"[A(hi)]", "[B(there)]">> >>,
                    <<"hi world", <<"[A(hi)]", "[B(world)]">> >> >>

SameShape(handled, combo) ==
    /\ Len(handled) = Len(combo)
    /\ \A p \in 1..Len(combo) : Len(handled[p]) = Len(combo[p])

HandledComputed ==
    /\ entry = "generate_utterances_and_handled_tokens"
    /\ pc \in {"join_combo", "returned"}

\* C7 as claimed: for every utterance combo and token-name sequence, the
\* handled-token combo has the shape of the utterance combo.
C7_SameShapeForAnyTokens ==
    HandledComputed => SameShape(handled_token_combo, utterance_combo)

\* C7 as amended: the handled-token combo has the shape of the utterance
\* combo when there are at least as many token names as combo positions.
C7_SameShape ==
    (HandledComputed /\ Len(tokens) >= Len(utterance_combo))
    => SameShape(handled_token_combo, utterance_combo)

C7_Witness ==
    /\ HandledComputed
    /\ utterance_combo = << <<"hi">>, <<"there", "world">> >>
    /\ Len(tokens) = 2
    /\ Len(handled_token_combo[2]) = 2

IsBad(pattern) == \E i \in 1..Len(pattern) : pattern[i] \notin DOMAIN TokenPatternsMap

\* The triple of the n-th fully expanded pattern.
TripleOf(n) ==
    <<_compute_utterance_combo([i \in 1..Len(utterance_patterns[n]) |->
                                   TokenPatternsMap[utterance_patterns[n][i]]]),
      utterance_patterns[n], utterance_patterns_groups[n]>>

Generating ==
    /\ entry = "generate_utterance_combo_tokens_and_groups"
    /\ pc \in {"generate", "KeyError", "returned"}

\* C8: when the k-th expanded pattern is the first with a token missing from
\* the token-pattern map, the triples of patterns 1..k-1 are yielded in order,
\* then the lookup error is raised, and nothing is yielded for pattern k or
\* later; the sequence only ends normally when no pattern is bad.
C8_AbortOnLookupFailure ==
    Generating
    => /\ \A n \in 1..Len(yielded) :
             /\ \A m \in 1..n : ~IsBad(utterance_patterns[m])
             /\ yielded[n] = TripleOf(n)
       /\ pc = "KeyError" =>
             /\ Len(yielded) < Len(utterance_patterns)
             /\ IsBad(utterance_patterns[Len(yielded) + 1])
       /\ pc = "returned" =>
             /\ Len(yielded) = Len(utterance_patterns)
             /\ \A n \in 1..Len(utterance_patterns) : ~IsBad(utterance_patterns[n])

C8_Witness ==
    /\ Generating /\ pc = "KeyError"
    /\ Len(yielded) >= 1
    /\ Len(utterance_patterns) > Len(yielded) + 1

\* C9: the handler applied to a token's phrases is the map's entry for the
\* token, else the map's DEFAULT entry, else (also without a map) the
\* built-in handler giving "[token(phrase)]".
C9_HandlerResolution ==
    HandledComputed
    => \A p \in 1..Len(handled_token_combo) :
          \A j \in 1..Len(handled_token_combo[p]) :
             /\ handled_token_combo[p][j] =
                   Call(ResolvedHandler(tokens[p]), tokens[p], utterance_combo[p][j])
             /\ (tokens[p] \notin DOMAIN token_handler_map
                 /\ "DEFAULT" \notin DOMAIN token_handler_map)
                => handled_token_combo[p][j] =
                      "[" \o tokens[p] \o "(" \o utterance_combo[p][j] \o ")]"

C9_Witness ==
    /\ HandledComputed
    /\ DOMAIN token_handler_map = {"A", "DEFAULT"}
    /\ tokens = <<"A", "B">>
    /\ Len(handled_token_combo) = 2
    /\ handled_token_combo[1] = <<"handler_A<A:hi>">>
    /\ handled_token_combo[2] = <<"handler_DEFAULT<B:there>", "handler_DEFAULT<B:world>">>

\* The index k is that of the entry whose span holds flat index i.
HoldsIndex(groups, k, i) ==
    /\ 0 <= k /\ k < Len(groups)
    /\ CumSpans(groups, k) <= i
    /\ i < CumSpans(groups, k + 1)

\* C10: for a flat token index within the spans of a Groups sequence,
\* _get_current_group_index returns the index of the entry whose span the
\* index falls under, at the first token of a span and inside a longer span
\* (stated for the calls the expander makes under acyclic definitions).
C10_GroupIndex ==
    AcyclicGroupDefs =>
    \A c \in 1..Len(group_index_calls) :
       LET call == group_index_calls[c]
       IN  (0 <= call.token_index /\ call.token_index < SumSpans(call.groups))
           => HoldsIndex(call.groups, call.result, call.token_index)

(***************************************************************************)
(* Checks of the model itself.                                             *)
(***************************************************************************)
\* The recursion limit only ends a range expansion that cannot progress.
RangeOverflowOnlyWhenStuck ==
    (entry = "_handle_ranges" /\ pc = "RecursionError")
    => \E n \in 1..Len(utterance_patterns) : FirstRangePosition(utterance_patterns[n]) = 1

\* The recursion limit only ends a group expansion over cyclic definitions.
GroupOverflowOnlyWhenCyclic ==
    (entry = "_expand_groups" /\ pc = "RecursionError" /\ depth > 0) => ~AcyclicGroupDefs

====
